---------------------------- MODULE Spec2Model ----------------------------
(***************************************************************************)
(* ddtrace.internal.forksafe: after-in-child fork hooks.                   *)
(*                                                                         *)
(* The model follows one process lineage.  A fork moves the model to the   *)
(* child: memory (registry, PID, PID_LOCK, the hooks' list) is copied,     *)
(* only the forking thread survives, os.getpid() changes.  Threads of a    *)
(* process interleave at the granularity of the statements of              *)
(* forksafe_func, call_nocheck and ddtrace_after_in_child.                 *)
(***************************************************************************)
EXTENDS Integers, Sequences, FiniteSets, TLC

\* ------------------------------------------------------------- bounds
MaxHooks  == 3      \* registrations (length of the registry)
MaxForks  == 2      \* length of the fork chain
MaxDirect == 1      \* direct calls of ddtrace_after_in_child

\* The threads of a process: two, the least number that can race.
Threads == {1, 2}

\* Hooks, as the tests write them: the k-th hook registered appends k to a
\* list, except the hooks of RaisingHooks, which raise ValueError (an
\* Exception) instead.
HookIds      == 1..MaxHooks
RaisingHooks == {2}

\* Callables handed to call_nocheck: a function returned by register's
\* decorator, and a function that never went through it.
Funcs == {"wrapped", "plain"}

\* Arguments a caller passes to a decorated function: *args and **kwargs, the
\* keyword arguments as a set of <<name, value>> pairs.  "_check_pid" is the
\* keyword forksafe_func reads.
Positional  == {<<>>, <<1>>}
KeywordSets ==
    {x \cup c : x \in {{}, {<<"x", 1>>}},
                c \in {{}, {<<"_check_pid", TRUE>>}, {<<"_check_pid", FALSE>>}}}

\* os.getpid() of the process that imports the module.
InitPid == 1

VARIABLES
    BUILTIN_FORK_HOOKS, \* hasattr(os, "register_at_fork"), fixed at import
    registry,           \* the list of hooks
    PID,                \* the stored process id
    PID_LOCK,           \* TRUE iff the lock is held
    livepid,            \* what os.getpid() returns in the current process
    state,              \* the list the hooks append to, returned by the functions
    pc,                 \* per thread: the statement it is at
    mode,               \* per thread: "checked", "nocheck", "direct", "atfork"
    fn,                 \* per thread: the callable of the call in progress
    pid,                \* per thread: the local pid of forksafe_func
    idx,                \* per thread: position of the iteration over registry
    exc,                \* per thread: the exception leaving the call, or "none"
    ret,                \* per thread: the value the call returned
    args,               \* per thread: the positional arguments of the caller
    kwargs,             \* per thread: the keyword arguments of the caller
    recv,               \* per thread: the invocations of the original function
                        \* by the call in progress, each with its arguments
    \* history of the run, read by the properties only
    ran,                \* per thread: hooks invoked by the call in progress
    hookLog,            \* hooks invoked by fork checks, or by the native
                        \* facility, in this process
    regAtFork,          \* registry at the last fork
    runs,               \* hook runs started by fork checks in this process
    startRuns,          \* per thread: runs when its call started
    nDirect             \* direct calls of ddtrace_after_in_child so far

vars == <<BUILTIN_FORK_HOOKS, registry, PID, PID_LOCK, livepid, state, pc, mode,
          fn, pid, idx, exc, ret, args, kwargs, recv, ran, hookLog, regAtFork,
          runs, startRuns, nDirect>>

thread  == <<pc, mode, fn, pid, idx, exc, ret, args, kwargs, recv, ran, startRuns>>
history == <<hookLog, regAtFork, runs, nDirect>>

Pids == InitPid..(InitPid + MaxForks)

IsPrefix(s, r) == Len(s) <= Len(r) /\ SubSeq(r, 1, Len(s)) = s

Init ==
    /\ BUILTIN_FORK_HOOKS \in BOOLEAN
    /\ registry = <<>>
    /\ PID = InitPid
    /\ PID_LOCK = FALSE
    /\ livepid = InitPid
    /\ state = <<>>
    /\ pc = [t \in Threads |-> "idle"]
    /\ mode = [t \in Threads |-> "none"]
    /\ fn = [t \in Threads |-> "none"]
    /\ pid = [t \in Threads |-> 0]
    /\ idx = [t \in Threads |-> 0]
    /\ exc = [t \in Threads |-> "none"]
    /\ ret = [t \in Threads |-> <<>>]
    /\ args = [t \in Threads |-> <<>>]
    /\ kwargs = [t \in Threads |-> {}]
    /\ recv = [t \in Threads |-> <<>>]
    /\ ran = [t \in Threads |-> <<>>]
    /\ hookLog = <<>>
    /\ regAtFork = <<>>
    /\ runs = 0
    /\ startRuns = [t \in Threads |-> 0]
    /\ nDirect = 0

\* ------------------------------------------------------------ helpers

\* (variant: the flag is never looked at)
HasMarkerAlways(f) == TRUE

\* hasattr(f, "_is_forksafe"): the flag is set on forksafe_func only, which
\* exists only when the native facility does not.
HasMarker(f) == f = "wrapped"

\* (variant: _check_pid is ignored)
CheckPidAlways(m) == TRUE

\* kwargs.pop("_check_pid", True): call_nocheck passes _check_pid=False.
CheckPid(m) == m # "nocheck"

\* (variant: the comparison is inverted)
StalePidInverted(p, stored) == p = stored

\* (variant: no comparison, the hooks run on every checked call)
StalePidAlways(p, stored) == TRUE

\* if pid != PID
StalePid(p, stored) == p # stored

\* (variant: the registry is walked from its end)
HookAtReversed(reg, i) == reg[Len(reg) + 1 - i]

\* The hook the iteration `for hook in registry` yields at position i.
HookAt(reg, i) == reg[i]

\* (variant: the try statement encloses the loop, a failure ends the run)
NextIdxAbort(i, raised, n) == IF raised THEN n + 1 ELSE i + 1

\* The position of the iteration after the hook at position i was called,
\* whether or not the handler ran.
NextIdx(i, raised, n) == i + 1

\* hook(): the list after the call and whether the call raised.
CallHook(h, st) ==
    IF h \in RaisingHooks
    THEN [state |-> st, raised |-> TRUE]
    ELSE [state |-> Append(st, h), raised |-> FALSE]

\* (variant: no handler)
ExceptionCaughtNever(raised) == FALSE

\* except Exception: the handler takes every exception a hook raises here.
ExceptionCaught(raised) == TRUE

\* Begin a call: reset the per-call fields of thread t.
Enter(t, p, m, f) ==
    /\ pc' = [pc EXCEPT ![t] = p]
    /\ mode' = [mode EXCEPT ![t] = m]
    /\ fn' = [fn EXCEPT ![t] = f]
    /\ pid' = [pid EXCEPT ![t] = 0]
    /\ idx' = [idx EXCEPT ![t] = IF p = "hooks" THEN 1 ELSE 0]
    /\ exc' = [exc EXCEPT ![t] = "none"]
    /\ ret' = [ret EXCEPT ![t] = <<>>]
    /\ ran' = [ran EXCEPT ![t] = <<>>]
    /\ startRuns' = [startRuns EXCEPT ![t] = runs]

Goto(t, p) == pc' = [pc EXCEPT ![t] = p]

\* The caller's arguments of the call thread t begins; the original function
\* has not been invoked yet.
Pass(t, a, kw) ==
    /\ args' = [args EXCEPT ![t] = a]
    /\ kwargs' = [kwargs EXCEPT ![t] = kw]
    /\ recv' = [recv EXCEPT ![t] = <<>>]

\* The value of kwargs.pop("_check_pid", True).
PopCheckPid(kw) ==
    IF \E p \in kw : p[1] = "_check_pid"
    THEN (CHOOSE p \in kw : p[1] = "_check_pid")[2]
    ELSE TRUE

\* (variant: the wrapper passes no keyword argument on)
AfterPopNothing(kw) == {}

\* kwargs after kwargs.pop("_check_pid", True).
AfterPop(kw) == {p \in kw : p[1] # "_check_pid"}

\* func(*args, **kwargs): what the original function is invoked with.  With
\* the native facility the decorated function is the original one and gets
\* the caller's arguments as they are.
Received(t) ==
    [args |-> args[t],
     kwargs |-> IF BUILTIN_FORK_HOOKS THEN kwargs[t] ELSE AfterPop(kwargs[t])]

shared == <<BUILTIN_FORK_HOOKS, registry, PID, PID_LOCK, livepid, state>>

\* ------------------------------------------------------------ actions

\* (variant: the hook is put at the front of the list)
register_front(t, h) ==
    /\ pc[t] = "idle"
    /\ Len(registry) < MaxHooks
    /\ h = Len(registry) + 1
    /\ registry' = <<h>> \o registry
    /\ UNCHANGED <<BUILTIN_FORK_HOOKS, PID, PID_LOCK, livepid, state, thread, history>>

\* register(after_in_child)(func): append the hook; the decorator returns
\* forksafe_func (manual detection) or func itself (native facility).
register(t, h) ==
    /\ pc[t] = "idle"
    /\ Len(registry) < MaxHooks
    /\ h = Len(registry) + 1
    /\ registry' = Append(registry, h)
    /\ UNCHANGED <<BUILTIN_FORK_HOOKS, PID, PID_LOCK, livepid, state, thread, history>>

\* register called again with a hook that is in the registry already: there
\* is no uniqueness check, the hook is appended once more.
register_again(t, h) ==
    /\ pc[t] = "idle"
    /\ Len(registry) < MaxHooks
    /\ \E i \in 1..Len(registry) : registry[i] = h
    /\ registry' = Append(registry, h)
    /\ UNCHANGED <<BUILTIN_FORK_HOOKS, PID, PID_LOCK, livepid, state, thread, history>>

\* A call of a decorated function.  With the native facility the decorated
\* function is the original one: the call goes to its body.
call_wrapped(t) ==
    /\ pc[t] = "idle"
    /\ registry # <<>>
    /\ Enter(t, IF BUILTIN_FORK_HOOKS THEN "body" ELSE "entry", "checked", "wrapped")
    /\ Pass(t, <<>>, {})
    /\ UNCHANGED <<shared, history>>

\* A call of a decorated function with arguments: func(*a, **kw).
call_wrapped_kw(t, a, kw) ==
    /\ pc[t] = "idle"
    /\ registry # <<>>
    /\ Enter(t, IF BUILTIN_FORK_HOOKS THEN "body" ELSE "entry",
             IF BUILTIN_FORK_HOOKS \/ PopCheckPid(kw) THEN "checked" ELSE "nocheck",
             "wrapped")
    /\ Pass(t, a, kw)
    /\ UNCHANGED <<shared, history>>

\* call_nocheck(f, ...) is entered.
call_nocheck(t, f) ==
    /\ pc[t] = "idle"
    /\ f = "wrapped" => registry # <<>>
    /\ Enter(t, "nocheck", "nocheck", f)
    /\ Pass(t, <<>>, {})
    /\ UNCHANGED <<shared, history>>

\* (variant: the flag is tested under both strategies)
call_nocheck_body_flag(t) ==
    /\ pc[t] = "nocheck"
    /\ IF ~HasMarker(fn[t]) \/ BUILTIN_FORK_HOOKS
       THEN /\ Goto(t, "done")
            /\ exc' = [exc EXCEPT ![t] = "ValueError"]
       ELSE /\ Goto(t, "entry")
            /\ exc' = exc
    /\ UNCHANGED <<shared, mode, fn, pid, idx, ret, ran, startRuns, args, kwargs, recv, history>>

\* The body of call_nocheck: native facility, f(*args, **kwargs); manual
\* detection, ValueError without the flag, else f(*args, _check_pid=False).
call_nocheck_body(t) ==
    /\ pc[t] = "nocheck"
    /\ IF BUILTIN_FORK_HOOKS
       THEN /\ Goto(t, "body")
            /\ exc' = exc
       ELSE IF ~HasMarker(fn[t])
            THEN /\ Goto(t, "done")
                 /\ exc' = [exc EXCEPT ![t] = "ValueError"]
            ELSE /\ Goto(t, "entry")
                 /\ exc' = exc
    /\ UNCHANGED <<shared, mode, fn, pid, idx, ret, ran, startRuns, args, kwargs, recv, history>>

\* forksafe_func: if kwargs.pop("_check_pid", True)
forksafe_func_check(t) ==
    /\ pc[t] = "entry"
    /\ Goto(t, IF CheckPid(mode[t]) THEN "acquire" ELSE "body")
    /\ UNCHANGED <<shared, mode, fn, pid, idx, exc, ret, ran, startRuns, args, kwargs, recv, history>>

\* (variant: no mutual exclusion)
forksafe_func_acquire_nolock(t) ==
    /\ pc[t] = "acquire"
    /\ PID_LOCK' = TRUE
    /\ Goto(t, "getpid")
    /\ UNCHANGED <<BUILTIN_FORK_HOOKS, registry, PID, livepid, state,
                   mode, fn, pid, idx, exc, ret, ran, startRuns, args, kwargs, recv, history>>

\* with PID_LOCK: (enter)
forksafe_func_acquire(t) ==
    /\ pc[t] = "acquire"
    /\ ~PID_LOCK
    /\ PID_LOCK' = TRUE
    /\ Goto(t, "getpid")
    /\ UNCHANGED <<BUILTIN_FORK_HOOKS, registry, PID, livepid, state,
                   mode, fn, pid, idx, exc, ret, ran, startRuns, args, kwargs, recv, history>>

\* pid = os.getpid()
forksafe_func_getpid(t) ==
    /\ pc[t] = "getpid"
    /\ pid' = [pid EXCEPT ![t] = livepid]
    /\ Goto(t, "compare")
    /\ UNCHANGED <<shared, mode, fn, idx, exc, ret, ran, startRuns, args, kwargs, recv, history>>

\* if pid != PID: ddtrace_after_in_child() is entered
forksafe_func_compare(t) ==
    /\ pc[t] = "compare"
    /\ IF StalePid(pid[t], PID)
       THEN /\ Goto(t, "hooks")
            /\ idx' = [idx EXCEPT ![t] = 1]
            /\ runs' = runs + 1
       ELSE /\ Goto(t, "release")
            /\ UNCHANGED <<idx, runs>>
    /\ UNCHANGED <<shared, mode, fn, pid, exc, ret, ran, startRuns, args, kwargs, recv,
                   hookLog, regAtFork, nDirect>>

\* A direct call of ddtrace_after_in_child().
ddtrace_after_in_child_call(t) ==
    /\ pc[t] = "idle"
    /\ nDirect < MaxDirect
    /\ nDirect' = nDirect + 1
    /\ Enter(t, "hooks", "direct", "none")
    /\ Pass(t, <<>>, {})
    /\ UNCHANGED <<shared, hookLog, regAtFork, runs>>

\* Threads of a forked child start once fork() has returned in it.
Started(t) ==
    IF mode[t] = "atfork"
    THEN [u \in Threads |-> IF u = t \/ pc[u] = "unborn" THEN "idle" ELSE pc[u]]
    ELSE pc

\* One iteration of `for hook in registry`: try: hook() except Exception: log.
\* An exception the handler does not take leaves ddtrace_after_in_child and,
\* in forksafe_func, the with block, which releases the lock.
ddtrace_after_in_child_hook(t) ==
    /\ pc[t] = "hooks"
    /\ idx[t] <= Len(registry)
    /\ LET hook == HookAt(registry, idx[t])
           out  == CallHook(hook, state)
       IN /\ state' = out.state
          /\ ran' = [ran EXCEPT ![t] = Append(@, hook)]
          /\ hookLog' = IF mode[t] \in {"checked", "atfork"}
                        THEN Append(hookLog, hook) ELSE hookLog
          /\ IF out.raised /\ ~ExceptionCaught(out.raised)
             THEN /\ idx' = idx
                  /\ IF mode[t] = "atfork"
                     THEN /\ pc' = Started(t)
                          /\ exc' = exc
                     ELSE /\ Goto(t, "done")
                          /\ exc' = [exc EXCEPT ![t] = "HookError"]
                  /\ PID_LOCK' = IF mode[t] = "checked" THEN FALSE ELSE PID_LOCK
             ELSE /\ idx' = [idx EXCEPT ![t] = NextIdx(@, out.raised, Len(registry))]
                  /\ UNCHANGED <<pc, exc, PID_LOCK>>
    /\ UNCHANGED <<BUILTIN_FORK_HOOKS, registry, PID, livepid, mode, fn, pid, ret,
                   startRuns, args, kwargs, recv, regAtFork, runs, nDirect>>

\* One iteration of `for hook in registry` in which the hook, besides what it
\* does otherwise, registers itself again: register appends to the list the
\* loop is iterating over.
ddtrace_after_in_child_hook_registers(t) ==
    /\ pc[t] = "hooks"
    /\ idx[t] <= Len(registry)
    /\ Len(registry) < MaxHooks
    /\ LET hook == HookAt(registry, idx[t])
           out  == CallHook(hook, state)
       IN /\ state' = out.state
          /\ registry' = Append(registry, hook)
          /\ ran' = [ran EXCEPT ![t] = Append(@, hook)]
          /\ hookLog' = IF mode[t] \in {"checked", "atfork"}
                        THEN Append(hookLog, hook) ELSE hookLog
          /\ ExceptionCaught(out.raised)
          /\ idx' = [idx EXCEPT ![t] = NextIdx(@, out.raised, Len(registry'))]
    /\ UNCHANGED <<BUILTIN_FORK_HOOKS, PID, PID_LOCK, livepid, pc, mode, fn, pid, exc,
                   ret, startRuns, args, kwargs, recv, regAtFork, runs, nDirect>>

\* (variant: a direct run stores the live process id when it returns)
ddtrace_after_in_child_return_store(t) ==
    /\ pc[t] = "hooks"
    /\ idx[t] > Len(registry)
    /\ pc' = IF mode[t] = "checked" THEN [pc EXCEPT ![t] = "setpid"]
             ELSE IF mode[t] = "direct" THEN [pc EXCEPT ![t] = "done"]
             ELSE Started(t)
    /\ PID' = IF mode[t] = "direct" THEN livepid ELSE PID
    /\ UNCHANGED <<BUILTIN_FORK_HOOKS, registry, PID_LOCK, livepid, state, mode, fn,
                   pid, idx, exc, ret, ran, startRuns, args, kwargs, recv, history>>

\* The iteration is exhausted: ddtrace_after_in_child returns.
ddtrace_after_in_child_return(t) ==
    /\ pc[t] = "hooks"
    /\ idx[t] > Len(registry)
    /\ pc' = IF mode[t] = "checked" THEN [pc EXCEPT ![t] = "setpid"]
             ELSE IF mode[t] = "direct" THEN [pc EXCEPT ![t] = "done"]
             ELSE Started(t)
    /\ UNCHANGED <<shared, mode, fn, pid, idx, exc, ret, ran, startRuns, args, kwargs, recv, history>>

\* (variant: the stored id is not updated)
forksafe_func_setpid_skip(t) ==
    /\ pc[t] = "setpid"
    /\ Goto(t, "release")
    /\ UNCHANGED <<shared, mode, fn, pid, idx, exc, ret, ran, startRuns, args, kwargs, recv, history>>

\* PID = pid
forksafe_func_setpid(t) ==
    /\ pc[t] = "setpid"
    /\ PID' = pid[t]
    /\ Goto(t, "release")
    /\ UNCHANGED <<BUILTIN_FORK_HOOKS, registry, PID_LOCK, livepid, state,
                   mode, fn, pid, idx, exc, ret, ran, startRuns, args, kwargs, recv, history>>

\* (variant: the lock is still held after the with block)
forksafe_func_release_keep(t) ==
    /\ pc[t] = "release"
    /\ Goto(t, "body")
    /\ UNCHANGED <<shared, mode, fn, pid, idx, exc, ret, ran, startRuns, args, kwargs, recv, history>>

\* with PID_LOCK: (exit)
forksafe_func_release(t) ==
    /\ pc[t] = "release"
    /\ PID_LOCK' = FALSE
    /\ Goto(t, "body")
    /\ UNCHANGED <<BUILTIN_FORK_HOOKS, registry, PID, livepid, state,
                   mode, fn, pid, idx, exc, ret, ran, startRuns, args, kwargs, recv, history>>

\* return func(*args, **kwargs): the functions of the tests return the list.
forksafe_func_body(t) ==
    /\ pc[t] = "body"
    /\ ret' = [ret EXCEPT ![t] = state]
    /\ recv' = [recv EXCEPT ![t] = Append(@, Received(t))]
    /\ Goto(t, "done")
    /\ UNCHANGED <<shared, mode, fn, pid, idx, exc, ran, startRuns, args, kwargs, history>>

\* return func(*args, **kwargs) where the original function raises: the
\* exception leaves forksafe_func.
forksafe_func_body_raise(t) ==
    /\ pc[t] = "body"
    /\ exc' = [exc EXCEPT ![t] = "FuncError"]
    /\ recv' = [recv EXCEPT ![t] = Append(@, Received(t))]
    /\ Goto(t, "done")
    /\ UNCHANGED <<shared, mode, fn, pid, idx, ret, ran, startRuns, args, kwargs, history>>

\* The caller has the result (or the exception) and goes on.
Return(t) ==
    /\ pc[t] = "done"
    /\ Enter(t, "idle", "none", "none")
    /\ Pass(t, <<>>, {})
    /\ UNCHANGED <<shared, history>>

\* os.fork() by a thread between calls; the model goes on in the child.  The
\* other threads do not exist in the child; the threads the child starts take
\* their places.  With the native facility the forking thread runs
\* ddtrace_after_in_child in the child before fork() returns.
fork(t) ==
    /\ pc[t] = "idle"
    /\ livepid < InitPid + MaxForks
    /\ livepid' = livepid + 1
    /\ pc' = [u \in Threads |->
                IF BUILTIN_FORK_HOOKS
                THEN (IF u = t THEN "hooks" ELSE "unborn")
                ELSE "idle"]
    /\ mode' = [u \in Threads |-> IF BUILTIN_FORK_HOOKS /\ u = t THEN "atfork" ELSE "none"]
    /\ fn' = [u \in Threads |-> "none"]
    /\ pid' = [u \in Threads |-> 0]
    /\ idx' = [u \in Threads |-> IF BUILTIN_FORK_HOOKS /\ u = t THEN 1 ELSE 0]
    /\ exc' = [u \in Threads |-> "none"]
    /\ ret' = [u \in Threads |-> <<>>]
    /\ args' = [u \in Threads |-> <<>>]
    /\ kwargs' = [u \in Threads |-> {}]
    /\ recv' = [u \in Threads |-> <<>>]
    /\ ran' = [u \in Threads |-> <<>>]
    /\ startRuns' = [u \in Threads |-> 0]
    /\ hookLog' = <<>>
    /\ regAtFork' = registry
    /\ runs' = 0
    /\ UNCHANGED <<BUILTIN_FORK_HOOKS, registry, PID, PID_LOCK, state, nDirect>>

Next ==
    \E t \in Threads :
        \/ \E h \in HookIds : register(t, h)
        \/ call_wrapped(t)
        \/ \E f \in Funcs : call_nocheck(t, f)
        \/ call_nocheck_body(t)
        \/ forksafe_func_check(t)
        \/ forksafe_func_acquire(t)
        \/ forksafe_func_getpid(t)
        \/ forksafe_func_compare(t)
        \/ ddtrace_after_in_child_call(t)
        \/ ddtrace_after_in_child_hook(t)
        \/ ddtrace_after_in_child_return(t)
        \/ forksafe_func_setpid(t)
        \/ forksafe_func_release(t)
        \/ forksafe_func_body(t)
        \/ Return(t)
        \/ fork(t)

Spec == Init /\ [][Next]_vars

\* The calls with arguments and original functions that raise: what a caller
\* of a decorated function can observe of the wrapper.  Direct runs of the
\* hooks and call_nocheck are left out.
NextArgs ==
    \E t \in Threads :
        \/ \E h \in HookIds : register(t, h)
        \/ \E a \in Positional : \E kw \in KeywordSets : call_wrapped_kw(t, a, kw)
        \/ forksafe_func_check(t)
        \/ forksafe_func_acquire(t)
        \/ forksafe_func_getpid(t)
        \/ forksafe_func_compare(t)
        \/ ddtrace_after_in_child_hook(t)
        \/ ddtrace_after_in_child_return(t)
        \/ forksafe_func_setpid(t)
        \/ forksafe_func_release(t)
        \/ forksafe_func_body(t)
        \/ forksafe_func_body_raise(t)
        \/ Return(t)
        \/ fork(t)

SpecArgs == Init /\ [][NextArgs]_vars

\* Registrations of hooks that are registered already, by the application
\* and by hooks during a run.  call_nocheck is left out.
NextReg ==
    \E t \in Threads :
        \/ \E h \in HookIds : register(t, h)
        \/ \E h \in HookIds : register_again(t, h)
        \/ call_wrapped(t)
        \/ forksafe_func_check(t)
        \/ forksafe_func_acquire(t)
        \/ forksafe_func_getpid(t)
        \/ forksafe_func_compare(t)
        \/ ddtrace_after_in_child_call(t)
        \/ ddtrace_after_in_child_hook(t)
        \/ ddtrace_after_in_child_hook_registers(t)
        \/ ddtrace_after_in_child_return(t)
        \/ forksafe_func_setpid(t)
        \/ forksafe_func_release(t)
        \/ forksafe_func_body(t)
        \/ Return(t)
        \/ fork(t)

SpecReg == Init /\ [][NextReg]_vars

\* The steps of a call in progress: a scheduled thread executes its next
\* statement.
Progress(t) ==
    \/ call_nocheck_body(t)
    \/ forksafe_func_check(t)
    \/ forksafe_func_getpid(t)
    \/ forksafe_func_compare(t)
    \/ ddtrace_after_in_child_hook(t)
    \/ ddtrace_after_in_child_return(t)
    \/ forksafe_func_setpid(t)
    \/ forksafe_func_release(t)
    \/ forksafe_func_body(t)

\* Fair scheduling: every thread keeps executing, every hook returns, and a
\* thread waiting for the lock gets it if the lock is free again and again.
FairSpec ==
    /\ Spec
    /\ \A t \in Threads : WF_vars(Progress(t)) /\ SF_vars(forksafe_func_acquire(t))

TypeOK ==
    /\ BUILTIN_FORK_HOOKS \in BOOLEAN
    /\ registry \in Seq(HookIds) /\ Len(registry) <= MaxHooks
    /\ PID \in Pids /\ livepid \in Pids
    /\ PID_LOCK \in BOOLEAN
    /\ pc \in [Threads -> {"idle", "unborn", "nocheck", "entry", "acquire", "getpid",
                           "compare", "hooks", "setpid", "release", "body", "done"}]
    /\ mode \in [Threads -> {"none", "checked", "nocheck", "direct", "atfork"}]
    /\ exc \in [Threads -> {"none", "ValueError", "HookError", "FuncError"}]
    /\ args \in [Threads -> Positional]
    /\ kwargs \in [Threads -> KeywordSets]
    /\ \A t \in Threads : Len(recv[t]) <= 1

\* ----------------------------------------------------------- properties

Manual  == ~BUILTIN_FORK_HOOKS
InChild == livepid # InitPid
Checked(t) == mode[t] = "checked"
Raised(log) == \E i \in 1..Len(log) : log[i] \in RaisingHooks

\* C1: manual detection.  When the body of a checked call executes in a forked
\* child, the fork checks of that child have invoked every hook that was
\* registered before the fork, each exactly once and in registration order
\* (the hooks invoked are a prefix of the registry that covers the registry as
\* it was at the fork), by one call that started before any run was triggered,
\* and that run is over: the stored id is the live id.
C1_HooksBeforeBody ==
    \A t \in Threads :
        (Manual /\ InChild /\ Checked(t) /\ pc[t] = "body")
            => /\ IsPrefix(regAtFork, hookLog)
               /\ IsPrefix(hookLog, registry)
               /\ ran[t] \in {<<>>, hookLog}
               /\ startRuns[t] = 0 \/ ran[t] = <<>>
               /\ PID = livepid
               /\ \A u \in Threads : Checked(u) => pc[u] # "hooks"

C1_Witness ==
    \E t \in Threads :
        /\ Manual /\ InChild /\ Checked(t) /\ pc[t] = "body"
        /\ startRuns[t] = 0
        /\ Len(regAtFork) = 3
        /\ ran[t] = regAtFork

\* C2: manual detection.  Whatever the interleaving of the threads of a forked
\* child, the fork checks of that child start at most one hook run, exactly one
\* once the body of a checked call has been reached, and no hook is invoked
\* twice by them (a counting hook counts to 1).
C2_OncePerFork ==
    Manual =>
        /\ runs <= 1
        /\ \A h \in HookIds :
              Cardinality({i \in 1..Len(hookLog) : hookLog[i] = h}) <= 1
        /\ \A t \in Threads :
              (InChild /\ Checked(t) /\ pc[t] \in {"body", "done"})
                  => runs = 1

C2_Witness ==
    /\ Manual /\ InChild
    /\ \A t \in Threads : Checked(t) /\ pc[t] = "done" /\ startRuns[t] = 0
    /\ runs = 1
    /\ hookLog = <<1>>

\* C3: manual detection.  A call of a wrapped function, checked or bypass, that
\* starts in a process whose fork check has already triggered the hook run
\* invokes no hook.
C3_NoRerun ==
    \A t \in Threads :
        (Manual /\ mode[t] \in {"checked", "nocheck"} /\ startRuns[t] >= 1)
            => ran[t] = <<>> /\ pc[t] \notin {"hooks", "setpid"}

C3_Witness ==
    \E t \in Threads :
        /\ Manual /\ InChild /\ Checked(t) /\ pc[t] = "done"
        /\ startRuns[t] = 1
        /\ ret[t] # <<>>

\* A step of thread t within the current process.
Steps(t) == pc'[t] # pc[t] /\ livepid' = livepid

\* C4: failure isolation.  A run of ddtrace_after_in_child in which a hook
\* raised ends only when every hook of the registry has been invoked, in order;
\* no call ends with the hook's exception; a checked call goes on from the run
\* to the update of the stored id, and the body, when it executes, returns the
\* list as it is then.
C4_Isolated(t) ==
    /\ (Steps(t) /\ pc[t] = "hooks" /\ pc'[t] # "hooks" /\ Raised(ran[t]))
          => /\ ran[t] = registry
             /\ exc'[t] = "none"
             /\ Checked(t) => pc'[t] = "setpid"
    /\ exc'[t] # "HookError"
    /\ (Steps(t) /\ pc[t] = "body")
          => pc'[t] = "done" /\ ret'[t] = state /\ exc'[t] = "none"

C4_FailureIsolation == [][\A t \in Threads : C4_Isolated(t)]_vars

C4_Witness ==
    \E t \in Threads :
        /\ Checked(t) /\ pc[t] = "done" /\ exc[t] = "none"
        /\ ran[t] = <<1, 2, 3>>
        /\ ret[t] = <<1, 3>>

\* C5: manual detection.  A checked call whose hook run had a hook raise leaves
\* the critical section with the stored id equal to the live id, and the fork
\* checks of a process in which a hook raised invoke every hook at most once:
\* one run, a prefix of the registry.
C5_OnceDespiteFailure ==
    Manual =>
        /\ \A t \in Threads :
              (Checked(t) /\ Raised(ran[t]) /\ pc[t] \in {"release", "body", "done"})
                  => PID = livepid
        /\ Raised(hookLog) => (runs = 1 /\ IsPrefix(hookLog, registry))

C5_Witness ==
    \E t, u \in Threads :
        /\ Manual /\ InChild
        /\ Checked(t) /\ pc[t] = "done" /\ Raised(ran[t])
        /\ Checked(u) /\ pc[u] = "done" /\ startRuns[u] = 1 /\ ran[u] = <<>>
        /\ hookLog = <<1, 2, 3>>

\* C6: manual detection.  No step taken while the stored id equals the live id
\* starts a hook run of a fork check or has a fork check invoke a hook.
C6_ParentNeverRuns ==
    [][(Manual /\ PID = livepid /\ livepid' = livepid)
          => (hookLog' = hookLog /\ runs' = runs)]_vars

C6_Witness ==
    \E t, u \in Threads :
        /\ Manual /\ ~InChild /\ Len(registry) = 3
        /\ Checked(t) /\ pc[t] = "done" /\ ret[t] = <<>>
        /\ mode[u] = "nocheck" /\ fn[u] = "wrapped" /\ pc[u] = "done" /\ ret[u] = <<>>

\* C7: order preservation.  In every run of ddtrace_after_in_child, direct, by
\* a fork check or by the native facility, the hooks invoked so far are the
\* first hooks of the registry, in the order of the registry.
C7_RegistrationOrder ==
    \A t \in Threads :
        /\ IsPrefix(ran[t], registry)
        /\ pc[t] = "hooks" => Len(ran[t]) = idx[t] - 1

C7_Witness ==
    \E t \in Threads :
        mode[t] = "direct" /\ pc[t] = "done" /\ ran[t] = <<1, 2, 3>>

\* The step of call_nocheck's body on a callable without the flag, the claim
\* of C8: ValueError, the callable not invoked, nothing else changed.
C8_Rejects(t) ==
    /\ pc'[t] = "done" /\ exc'[t] = "ValueError" /\ ret'[t] = <<>>
    /\ UNCHANGED <<PID, PID_LOCK, registry, state, hookLog, runs, ran>>

\* C8 as stated: under either strategy, call_nocheck on a callable that was
\* never returned by register's decorator raises ValueError without invoking
\* it, running a hook, or changing the stored id or the registry.
C8_AsStated ==
    [][\A t \in Threads :
          (Steps(t) /\ pc[t] = "nocheck" /\ fn[t] = "plain") => C8_Rejects(t)]_vars

\* C8 amended: that holds under manual detection; with the native facility
\* call_nocheck invokes the callable, whatever it is, and raises nothing itself.
C8_RejectsUnderManual ==
    [][\A t \in Threads :
          (Steps(t) /\ pc[t] = "nocheck" /\ fn[t] = "plain")
              => IF Manual
                 THEN C8_Rejects(t)
                 ELSE /\ pc'[t] = "body" /\ exc'[t] = "none"
                      /\ UNCHANGED <<PID, PID_LOCK, registry, state, hookLog, runs, ran>>]_vars

C8_Witness ==
    \E t \in Threads :
        /\ Manual /\ mode[t] = "nocheck" /\ fn[t] = "plain"
        /\ pc[t] = "done" /\ exc[t] = "ValueError"

\* C9: manual detection.  No step of a bypass call of a wrapped function
\* invokes a hook, takes or releases the lock or writes the stored id, and its
\* body returns the list as it is; so when a bypass call returns in a forked
\* child whose fork checks have started no run, the stored id is still stale,
\* and once the body of a checked call is reached there the fork checks have
\* run the hooks exactly once.
C9_BypassStep(t) ==
    (Steps(t) /\ mode[t] = "nocheck" /\ fn[t] = "wrapped")
        => /\ UNCHANGED <<PID, PID_LOCK, registry, state, hookLog, runs>>
           /\ ran'[t] = <<>>
           /\ pc'[t] \in {"entry", "body", "done", "idle"}
           /\ pc[t] = "body" => (ret'[t] = state /\ exc'[t] = "none")

C9_StillDetected ==
    \A u \in Threads :
        (InChild /\ mode[u] = "nocheck" /\ fn[u] = "wrapped" /\ pc[u] = "done")
            => /\ runs = 0 => (PID # livepid /\ hookLog = <<>>)
               /\ \A t \in Threads :
                     (Checked(t) /\ pc[t] \in {"body", "done"})
                         => (runs = 1 /\ IsPrefix(hookLog, registry)
                             /\ IsPrefix(regAtFork, hookLog))

C9_BypassNeverDetects ==
    /\ [][Manual => \A t \in Threads : C9_BypassStep(t)]_vars
    /\ [](Manual => C9_StillDetected)

C9_Witness ==
    \E t, u \in Threads :
        /\ Manual /\ InChild /\ regAtFork = <<1>>
        /\ mode[u] = "nocheck" /\ fn[u] = "wrapped" /\ pc[u] = "done" /\ ret[u] = <<>>
        /\ Checked(t) /\ pc[t] = "done" /\ ret[t] = <<1>> /\ ran[t] = <<1>>

\* C10: manual detection, a chain of forks.  The process that imported the
\* module starts no hook run; every process a fork of the chain created starts
\* at most one, and exactly one before the body of a checked call executes in
\* it; the thread performing it holds the lock and has read the live id, which
\* the stored id does not equal until the run is over, and meanwhile no other
\* checked call is inside the critical section.
C10_OneRunPerFork ==
    Manual =>
        /\ ~InChild => runs = 0
        /\ runs <= 1
        /\ \A t \in Threads :
              (InChild /\ Checked(t) /\ pc[t] \in {"release", "body", "done"})
                  => (runs = 1 /\ PID = livepid)
        /\ \A t \in Threads :
              (Checked(t) /\ pc[t] \in {"hooks", "setpid"})
                  => /\ PID_LOCK /\ pid[t] = livepid /\ PID # livepid
                     /\ \A u \in Threads \ {t} :
                           Checked(u) => pc[u] \notin {"getpid", "compare", "hooks",
                                                       "setpid", "release"}

\* The grandchild runs the hooks while the stored id is the child's: the child
\* had its run, and the second fork gets its own.
C10_Witness ==
    \E t \in Threads :
        /\ Manual /\ livepid = InitPid + 2 /\ PID = InitPid + 1
        /\ Checked(t) /\ pc[t] = "setpid"
        /\ runs = 1 /\ hookLog = registry /\ Len(registry) = 3

\* The hooks of a log, as a set.
Hooks(log) == {log[i] : i \in 1..Len(log)}

\* C11 as stated: whenever the body of a decorated function executes in a
\* forked child, its hook has been called in that process since the fork.
\* Stated for the function decorated with the first hook registered, which
\* exists whenever a decorated function is called, and for the runs without a
\* direct call of ddtrace_after_in_child, where hookLog holds every hook call.
C11_AsStated ==
    \A t \in Threads :
        (InChild /\ fn[t] = "wrapped" /\ pc[t] = "body" /\ nDirect = 0)
            => registry[1] \in Hooks(hookLog)

\* C11 amended: whenever the body of a decorated function executes in a forked
\* child through a checked call (with the native facility, through any call),
\* every hook registered before the fork has been called in that process since
\* the fork.
C11_HookBeforeBody ==
    \A t \in Threads :
        (InChild /\ fn[t] = "wrapped" /\ pc[t] = "body" /\ (Manual => Checked(t)))
            => Hooks(regAtFork) \subseteq Hooks(hookLog)

\* A hook registered in the child after its run is not called there.
C11_Witness ==
    \E t \in Threads :
        /\ Manual /\ InChild /\ Checked(t) /\ pc[t] = "body"
        /\ regAtFork = <<1>> /\ registry = <<1, 2>> /\ hookLog = <<1>>

\* C12: native facility.  The stored id and the lock are never touched and no
\* call of a decorated function, direct or through call_nocheck, invokes a hook
\* or raises: both go to the body and return the list; in a forked child calls
\* start only after ddtrace_after_in_child, run by the facility, has returned,
\* having invoked every hook registered before the fork once, in order.
C12_NativeStep(t) ==
    (Steps(t) /\ mode[t] \in {"checked", "nocheck"})
        => /\ UNCHANGED <<PID, PID_LOCK, registry, state, hookLog, runs>>
           /\ pc[t] \in {"nocheck", "body", "done"}
           /\ pc[t] = "nocheck" => pc'[t] = "body"
           /\ pc[t] = "body" => (pc'[t] = "done" /\ ret'[t] = state /\ exc'[t] = "none")

C12_NativeState ==
    /\ PID = InitPid /\ ~PID_LOCK /\ runs = 0
    /\ \A t \in Threads :
          /\ mode[t] \in {"checked", "nocheck"} => (ran[t] = <<>> /\ exc[t] = "none")
          /\ (InChild /\ mode[t] \in {"checked", "nocheck", "direct"})
                => /\ IsPrefix(regAtFork, hookLog) /\ IsPrefix(hookLog, registry)
                   /\ \A u \in Threads : pc[u] \notin {"hooks", "unborn"} \/ mode[u] = "direct"
          /\ (mode[t] = "atfork" /\ pc[t] = "hooks") => ran[t] = hookLog

C12_Native ==
    /\ [][BUILTIN_FORK_HOOKS => \A t \in Threads : C12_NativeStep(t)]_vars
    /\ [](BUILTIN_FORK_HOOKS => C12_NativeState)

C12_Witness ==
    \E t, u \in Threads :
        /\ BUILTIN_FORK_HOOKS /\ livepid = InitPid + 2
        /\ hookLog = <<1, 2, 3>> /\ state = <<1, 3, 1, 3>>
        /\ mode[t] = "nocheck" /\ fn[t] = "plain" /\ pc[t] = "done" /\ ret[t] = state
        /\ Checked(u) /\ pc[u] = "done" /\ ret[u] = state

\* C13 as stated: manual detection, fair scheduling, hooks that return.  Every
\* checked call that waits for the lock in a process goes on to execute the
\* original function in that process, unless the model leaves the process by
\* a fork of another thread.
C13_AsStated ==
    \A t \in Threads : \A p \in Pids :
        (Manual /\ Checked(t) /\ pc[t] = "acquire" /\ livepid = p)
            ~> (pc[t] = "body" \/ livepid # p)

\* The keyword arguments of kw other than _check_pid.
Others(kw) == {p \in kw : p[1] # "_check_pid"}

\* C14 as stated: a checked call that is over, with the result or the
\* exception of the original function, has invoked it exactly once with
\* exactly the positional and keyword arguments of the caller.
C14_AsStated ==
    \A t \in Threads :
        (Checked(t) /\ pc[t] = "done" /\ exc[t] \in {"none", "FuncError"})
            => recv[t] = <<[args |-> args[t], kwargs |-> kwargs[t]]>>

\* C14, a step of a checked call: the original function is invoked by the
\* last step of the call only, once; the call then returns its result, or has
\* its exception; the caller's arguments are what they were.
C14_CallStep(t) ==
    (Steps(t) /\ Checked(t) /\ pc[t] # "done")
        => /\ UNCHANGED <<args, kwargs>>
           /\ IF pc[t] = "body"
              THEN /\ recv[t] = <<>> /\ Len(recv'[t]) = 1 /\ pc'[t] = "done"
                   /\ \/ exc'[t] = "none" /\ ret'[t] = state
                      \/ exc'[t] = "FuncError" /\ ret'[t] = <<>>
              ELSE recv'[t] = <<>> /\ exc'[t] = "none"

\* C14 (amended): a checked call invokes the original function exactly once,
\* with the caller's positional arguments and every keyword argument of the
\* caller other than _check_pid; with the native facility with _check_pid as
\* well, under manual detection without it.  It returns the function's result
\* or propagates its exception.
C14_Transparent ==
    /\ [][\A t \in Threads : C14_CallStep(t)]_vars
    /\ [](\A t \in Threads :
            (Checked(t) /\ pc[t] = "done")
                => /\ Len(recv[t]) = 1
                   /\ recv[t][1].args = args[t]
                   /\ Others(recv[t][1].kwargs) = Others(kwargs[t])
                   /\ recv[t][1].kwargs =
                          (IF Manual THEN Others(kwargs[t]) ELSE kwargs[t]))

\* A checked call in a forked child that ran the hooks, was given x and
\* _check_pid=True, and whose original function raised.
C14_Witness ==
    \E t \in Threads :
        /\ Manual /\ InChild /\ Checked(t) /\ pc[t] = "done"
        /\ ran[t] = <<1, 2>> /\ exc[t] = "FuncError"
        /\ args[t] = <<1>>
        /\ kwargs[t] = {<<"x", 1>>, <<"_check_pid", TRUE>>}
        /\ recv[t] = <<[args |-> <<1>>, kwargs |-> {<<"x", 1>>}]>>

\* The statements of forksafe_func inside `with PID_LOCK`.
CriticalSection == {"getpid", "compare", "hooks", "setpid", "release"}

\* Thread t is running the hooks for a fork check.
RunningHooks(t) == Checked(t) /\ pc[t] = "hooks"

\* C15, a step: a checked call enters the critical section only when no
\* checked call is running hooks, and gets to the original function only from
\* its own release of the lock.
C15_WaitStep(t) ==
    (Steps(t) /\ Checked(t) /\ pc'[t] \in CriticalSection \cup {"body"})
        => /\ \A u \in Threads \ {t} : ~RunningHooks(u)
           /\ pc'[t] = "body" => pc[t] = "release"

\* C15: manual detection.  At most one thread runs hooks inside the
\* critical section of the fork check, that thread holds the lock, and while
\* it runs them no other checked call is in the critical section or in the
\* original function.
C15_HookRunsExclusive ==
    /\ [][Manual => \A t \in Threads : C15_WaitStep(t)]_vars
    /\ [](Manual =>
            \A t \in Threads :
                RunningHooks(t)
                    => /\ PID_LOCK
                       /\ \A u \in Threads \ {t} :
                              Checked(u) => pc[u] \in {"entry", "acquire"})

\* One thread is in the middle of a hook run in a forked child, the other
\* waits for the lock.
C15_Witness ==
    \E t, u \in Threads :
        /\ Manual /\ InChild /\ RunningHooks(t) /\ ran[t] = <<1, 2>>
        /\ Len(registry) = 3
        /\ Checked(u) /\ pc[u] = "acquire"

\* C16, a step of a checked call t: the stored id changes only by the
\* assignment PID = pid, made by the lock holder after its iteration over the
\* registry ended (every hook it met was invoked), with the live id; a step that takes t out of the
\* critical section, normally or by an exception, releases the lock.
C16_WriteStep(t) ==
    /\ (Steps(t) /\ PID' # PID)
          => /\ Checked(t) /\ pc[t] = "setpid" /\ PID_LOCK /\ PID_LOCK'
             /\ PID' = livepid
             /\ ran[t] # <<>> /\ IsPrefix(ran[t], registry) /\ idx[t] = Len(ran[t]) + 1
    /\ (Steps(t) /\ Checked(t) /\ pc[t] \in CriticalSection /\ pc'[t] \notin CriticalSection)
          => ~PID_LOCK'

\* C16: manual detection.  The stored process id is written only under
\* PID_LOCK, only with the live id, and only after ddtrace_after_in_child
\* returned (a fork leaves it as it is); while a checked call runs the hooks
\* the stored id is the stale one; once no checked call of this process is
\* in the critical section, the lock is the one the fork handed down, never
\* one a call of this process left held.
C16_StoredPid ==
    /\ [][Manual => /\ \A t \in Threads : C16_WriteStep(t)
                    /\ livepid' # livepid => PID' = PID]_vars
    /\ [](Manual =>
            /\ \A t \in Threads : RunningHooks(t) => (PID # livepid /\ PID_LOCK)
            /\ (runs > 0 /\ \A t \in Threads : ~(Checked(t) /\ pc[t] \in CriticalSection))
                  => ~PID_LOCK)

\* In the grandchild a checked call has run the hooks and is about to write
\* the stored id, which is still the one of the first process.
C16_Witness ==
    \E t \in Threads :
        /\ Manual /\ livepid = InitPid + 2 /\ PID = InitPid
        /\ Checked(t) /\ pc[t] = "setpid" /\ pid[t] = livepid
        /\ ran[t] = <<1, 2, 3>> /\ PID_LOCK

\* C17: the registry is append-only.  Every step (a registration, a step of
\* a call of a decorated function or of call_nocheck, a step of
\* ddtrace_after_in_child, a fork) leaves the registry as it is or adds one
\* entry at its end, so each value of the registry is a prefix of every later
\* one; and a thread between calls can always register (up to the MaxHooks
\* registrations of the model), under both strategies, whatever the lock and
\* the stored id are.
C17_AppendOnly ==
    /\ [][/\ IsPrefix(registry, registry')
          /\ Len(registry') <= Len(registry) + 1
          /\ registry' # registry
                => \E t \in Threads :
                      /\ pc[t] = "idle"
                      /\ UNCHANGED <<PID, PID_LOCK, livepid, state, thread, history>>]_vars
    /\ [](\A t \in Threads :
            (pc[t] = "idle" /\ Len(registry) < MaxHooks)
                => ENABLED register(t, Len(registry) + 1))

\* In a forked child whose fork check ran the one hook registered before the
\* fork, and after a direct run, two more hooks were registered, while a
\* checked call waits to store the id.
C17_Witness ==
    \E t \in Threads :
        /\ InChild /\ registry = <<1, 2, 3>> /\ regAtFork = <<1>> /\ nDirect = 1
        /\ Checked(t) /\ pc[t] = "setpid" /\ ran[t] = <<1>>

\* Thread t is in a run of ddtrace_after_in_child, of any origin.
InRun(t) == pc[t] = "hooks"

\* C18, the entries: a run starts at the first entry, has at every moment
\* invoked each entry it passed exactly once (a hook that is in the registry k
\* times, k times), and returns only when it has invoked every entry, the
\* ones appended while it was in progress included; so does the next run.
C18_EveryEntryOnce ==
    /\ [][\A t \in Threads :
            /\ (~InRun(t) /\ InRun(t)') => (idx'[t] = 1 /\ ran'[t] = <<>>)
            /\ (InRun(t) /\ ~InRun(t)' /\ livepid' = livepid) => ran[t] = registry]_vars
    /\ [](\A t \in Threads :
            InRun(t) => /\ idx[t] = Len(ran[t]) + 1
                        /\ IsPrefix(ran[t], registry))

\* C18, termination: hooks that return are enough for the run to return,
\* each invocation leaves the run with fewer entries to invoke.
C18_RunTerminates ==
    [][\A t \in Threads :
          (InRun(t) /\ ran'[t] # ran[t] /\ livepid' = livepid)
              => Len(registry') - Len(ran'[t]) < Len(registry) - Len(ran[t])]_vars

\* C18 as stated: every entry of the registry is invoked exactly once per run,
\* no appended entry is skipped by the next run, and the run terminates when
\* every hook terminates.
C18_AsStated == C18_EveryEntryOnce /\ C18_RunTerminates

\* Thread t is in, or has just made, a direct call of ddtrace_after_in_child.
Direct(t) == mode[t] = "direct"

\* C19, a step of thread t: entering, executing and ending a direct run
\* leaves the lock and the stored id as they are and is not recorded as a fork
\* check; and under manual detection the comparison of the first checked
\* call of a forked child finds the stored id stale and starts a run at the
\* first entry of the registry, whatever direct runs there were.
C19_DirectStep(t) ==
    /\ (Steps(t) /\ (Direct(t) \/ Direct(t)'))
          => UNCHANGED <<PID, PID_LOCK, runs, hookLog, registry>>
    /\ (Steps(t) /\ Manual /\ InChild /\ runs = 0 /\ Checked(t) /\ pc[t] = "compare")
          => (pc'[t] = "hooks" /\ idx'[t] = 1 /\ ran'[t] = <<>> /\ runs' = 1)

\* C19: a direct call of ddtrace_after_in_child can be made whether or not
\* PID_LOCK is held, does not take or release it, and does not change the
\* stored process id.  Under manual detection a forked child in which no fork
\* check has run the hooks has a stale stored id, direct runs or not, and the
\* checked call that stores the id has run every hook registered before the
\* fork.
C19_DirectRunNotCounted ==
    /\ [][\A t \in Threads : C19_DirectStep(t)]_vars
    /\ [](\A t \in Threads :
            /\ (pc[t] = "idle" /\ nDirect < MaxDirect)
                  => ENABLED ddtrace_after_in_child_call(t)
            /\ (Manual /\ InChild /\ runs = 0) => PID # livepid
            /\ (Manual /\ InChild /\ Checked(t) /\ pc[t] = "setpid")
                  => IsPrefix(regAtFork, ran[t]))

\* In a forked child a direct run invoked the hook, and after it the first
\* checked call invoked it again: the hook's effect is there twice.
C19_Witness ==
    \E t, u \in Threads :
        /\ Manual /\ InChild /\ regAtFork = <<1>> /\ registry = <<1>>
        /\ Direct(u) /\ pc[u] = "done" /\ ran[u] = <<1>>
        /\ Checked(t) /\ pc[t] = "done" /\ ran[t] = <<1>>
        /\ state = <<1, 1>> /\ ret[t] = state /\ PID = livepid

=============================================================================
